---------------------------- MODULE Spec2Model ----------------------------
(***************************************************************************)
(* Model of components/data_prepper.py (class PrepareData): the data-prep  *)
(* pipeline Gap Filler -> Identifier Propagator (PD, ADVPD) -> Consistency *)
(* Checker -> Join & Materialize.                                          *)
(*                                                                         *)
(* Geometry is discretised: the plane is a finite set of cells, a polygon  *)
(* is a non-empty set of cells, a point lies in one cell, and two shapes   *)
(* intersect when they share a cell.  A site layer is a record             *)
(*   [idfld |-> name of its identifier field, ids |-> cell -> identifier], *)
(* ids giving the site polygon that covers the cell (0: no site polygon);  *)
(* its fields are OBJECTID, SHAPE and the identifier field.                *)
(* The PD site layers tried cover every cell; the ADVPD site layers tried  *)
(* cover every cell or leave one uncovered.                                *)
(* Tables (feature classes, data frames) are records                       *)
(*   [columns |-> set of column names, rows |-> sequence of rows],         *)
(* a row being a function from column names to values.                     *)
(***************************************************************************)
EXTENDS Integers, Sequences, FiniteSets, TLC

\* ------------------------------------------------------------------ bounds
MaxPoly == 2        \* rows of the Community Polygon layer
MaxPts == 2         \* rows of the original Building Point layer
MaxFrag == 3        \* rows of an overlay result given to the tie-break alone
MaxIds == 3         \* rows of a working table given to the checker alone

Cells == {1, 2}                 \* cells of the discretised plane
PlaceIds == {1, 2}              \* values of the link field PLACE_ID
PdIds == {101, 102}             \* identifiers carried by the PD site layer
AdvIds == {201, 202}            \* identifiers carried by the ADVPD site layer
NoSite == 0                     \* identifier of a fragment no site polygon covers

VARIABLES
    pc,            \* position of the run in __init__
    log,           \* the steps __init__ has announced through self.logger
    deleting,      \* the last add_site_id call has logged "Deleting existing field"
    ia_a,          \* Community Polygon layer in the default workspace
    bld_p,         \* Building Point layer in the default workspace
    site_a,        \* PD site layer
    adv_pd,        \* ADVPD site layer
    site_a_fields, \* self.site_a_fields, the fields dropped after the PD overlay
    advpd_fields,  \* self.advpd_fields, the fields dropped after the ADVPD overlay
    site_p,        \* Site Point registry: sequence of SITE_ID values
    tie_order,     \* how the sort of this installation orders equal counts
    ia_centroids,  \* scratch workspace: centroid layer
    bld_p_ap,      \* scratch workspace: augmented copy of the point layer
    scratch,       \* scratch workspace: Identity result
    scratch_2,     \* scratch workspace: SpatialJoin result
    out_fc,        \* scratch workspace: final output feature class
    bld_p_nme,     \* self.bld_p_nme
    bld_p_pth,     \* self.bld_p_pth
    bld_p_flyr,    \* path the feature layer 'bld_p' reads
    indig_sdf,     \* self.indig_sdf, the working table
    sdf,           \* the resolved mapping of the last add_site_id call
    pd_missing,    \* result of check_site_id_exists for the PD identifiers
    adv_missing    \* result of check_site_id_exists for the ADVPD identifiers

vars == <<pc, log, deleting, ia_a, bld_p, site_a, adv_pd, site_a_fields,
          advpd_fields, site_p, tie_order, ia_centroids,
          bld_p_ap, scratch, scratch_2, out_fc, bld_p_nme, bld_p_pth,
          bld_p_flyr, indig_sdf, sdf, pd_missing, adv_missing>>

inputs == <<ia_a, bld_p, site_a, adv_pd, site_p>>

non_ess_fields == <<site_a_fields, advpd_fields>>

\* ----------------------------------------------------------------- helpers
Range(s) == {s[i] : i \in DOMAIN s}

Min(S) == CHOOSE x \in S : \A y \in S : x <= y

Max(S) == CHOOSE x \in S : \A y \in S : y <= x

SeqsUpTo(S, n) == UNION {[1..k -> S] : k \in 0..n}

\* The elements of the set of indices I of s, in index order.
RECURSIVE SelectIdx(_, _)
SelectIdx(s, I) ==
    IF I = {} THEN <<>>
    ELSE LET i == Min(I) IN <<s[i]>> \o SelectIdx(s, I \ {i})

\* Concatenation of a sequence of sequences.
RECURSIVE Flatten(_)
Flatten(ss) == IF ss = <<>> THEN <<>> ELSE Head(ss) \o Flatten(Tail(ss))

\* A row with column c added (or overwritten) with value v.
WithCol(r, c, v) == [f \in DOMAIN r \cup {c} |-> IF f = c THEN v ELSE r[f]]

\* A row without column c.
DropCol(r, c) == [f \in DOMAIN r \ {c} |-> r[f]]

\* A row restricted to the columns cs.
Project(r, cs) == [f \in cs |-> r[f]]

NoTable == [columns |-> {}, rows |-> <<>>]      \* a feature class that does not exist

Exists(t) == t.columns # {}

\* ------------------------------------------------------------------ names
DefaultBldP == <<"default_gdb", "BUILDING_P">>
ScratchBldP == <<"scratch_gdb", "BUILDING_P_ap">>
temp_id == "temp_id"
PdFld == "PD_Site_ID"
AdvFld == "ADVPD_Site_ID"
pd_sid_fld_nme == "AUTO_PD_SITE_ID"
adv_sid_fld_nme == "AUTO_ADV_SITE_ID"

\* The rows of the point feature class at path p.
ReadPoints(p, bp, ap) == IF p = DefaultBldP THEN bp.rows ELSE ap.rows


\* ------------------------------------------------- geometry-store operations
Intersects(a, b) == a \cap b # {}

\* A point's location as a shape.
PointShape(p) == {p.SHAPE}

\* SelectLayerByLocation('ia_a', "INTERSECT", 'bld_p') followed by
\* SelectLayerByAttribute('ia_a', "SWITCH_SELECTION"): the polygons (row
\* numbers) that intersect no point.
SwitchedSelection(polys, pts) ==
    {i \in DOMAIN polys :
        ~ \E j \in DOMAIN pts : Intersects(polys[i].SHAPE, PointShape(pts[j]))}

\* FeatureToPoint(layer, out, "INSIDE"): one point per selected polygon, placed
\* inside that polygon, carrying the polygon's row number as ORIG_FID.
FeatureToPoint(polys, selection) ==
    [columns |-> {"OBJECTID", "SHAPE", "ORIG_FID"},
     rows |-> LET sel == SelectIdx([i \in DOMAIN polys |-> i], selection)
              IN [k \in DOMAIN sel |->
                    [OBJECTID |-> k,
                     SHAPE |-> Min(polys[sel[k]].SHAPE),
                     ORIG_FID |-> sel[k]]]]

\* ExportFeatures(layer, path): a copy of the rows, renumbered.
ExportFeatures(rows) ==
    [columns |-> {"OBJECTID", "SHAPE"},
     rows |-> [k \in DOMAIN rows |-> [OBJECTID |-> k, SHAPE |-> rows[k].SHAPE]]]

\* Variant: nothing is appended.
AppendNothing(input, target) == target

\* Append(inputs, target, "NO_TEST"): the target's rows followed by the
\* inputs' rows, cut to the target's schema and numbered on.
AppendFeatures(input, target) ==
    [columns |-> target.columns,
     rows |-> target.rows \o
              [k \in DOMAIN input.rows |->
                 [OBJECTID |-> Len(target.rows) + k,
                  SHAPE |-> input.rows[k].SHAPE]]]

\* AddField(target_lyr, temp_id, 'LONG') and the UpdateCursor loop: every
\* row gets its position, counted from 1.
AddTempId(t) ==
    [columns |-> t.columns \cup {temp_id},
     rows |-> [i \in DOMAIN t.rows |-> WithCol(t.rows[i], temp_id, i)]]

\* Variant: the geoprocessing environment as it is when the flag is not set.
overwriteOutputOff == FALSE

\* env.overwriteOutput = True, set when the module is loaded ("Need this to
\* overwrite outputs without failing").
overwriteOutput == TRUE

\* A geoprocessing tool fails when its output exists and may not be
\* overwritten.
OutputBlocked(old) == Exists(old) /\ ~ overwriteOutput

\* The field names __init__ never puts into a list of fields to drop.
Essential ==
    {"SHAPE.AREA", "SHAPE.LEN", "SITE_ID", "OBJECTID", "Shape", "SHAPE",
     "Shape_Area", "Shape_Length"}

\* [f.name for f in ListFields(path)] for a site layer.
ListFields(site) == {"OBJECTID", "SHAPE", site.idfld}

\* The list comprehensions of __init__: the fields of a layer that are not
\* essential.
NonEssential(site) == ListFields(site) \ Essential

\* DeleteField(in_table, drop_field, "DELETE_FIELDS"): the table without the
\* fields named.
DeleteField(t, drop_field) ==
    [columns |-> t.columns \ drop_field,
     rows |-> [i \in DOMAIN t.rows |->
                 Project(t.rows[i], DOMAIN t.rows[i] \ drop_field)]]

\* The loop that deletes fields of a scratch feature class left by an earlier
\* call: whichever of the two names is found, fld_nme is the field deleted.
StaleFound(t, fld_nme, out_fld_nme) ==
    Exists(t) /\ ({fld_nme, out_fld_nme} \cap t.columns # {})

DeleteStale(t, fld_nme, out_fld_nme) ==
    IF StaleFound(t, fld_nme, out_fld_nme) /\ fld_nme \in t.columns
    THEN DeleteField(t, {fld_nme})
    ELSE t

\* The parts a polygon is cut into by a site layer: one part per identifier
\* met, in the order of their first cell.
RECURSIVE PartsInOrder(_)
PartsInOrder(parts) ==
    IF parts = {} THEN <<>>
    ELSE LET first == CHOOSE q \in parts : \A r \in parts : Min(q) <= Min(r)
         IN <<first>> \o PartsInOrder(parts \ {first})

Parts(shape, site) ==
    PartsInOrder({{c \in shape : site[c] = v} : v \in {site[c] : c \in shape}})

\* The name a field of the site layer has in the overlay result: its own,
\* or, when the target layer has a field of that name, the name numbered.
Numbered(f) ==
    CASE f = "PD_Site_ID" -> "PD_Site_ID_1"
      [] f = "ADVPD_Site_ID" -> "ADVPD_Site_ID_1"
      [] OTHER -> "SITE_ID_1"

OverlayName(target, f) == IF f \in target.columns THEN Numbered(f) ELSE f

\* Identity(target_lyr, site_lyr, out): one row per part of every target row,
\* carrying the target row's attributes and, under the site layer's
\* identifier field, the identifier of the site polygon the part lies in.
IdentityRows(target, site) ==
    Flatten([i \in DOMAIN target.rows |->
        LET r == target.rows[i]
            ps == Parts(r.SHAPE, site.ids)
        IN [k \in DOMAIN ps |->
              WithCol([r EXCEPT !.SHAPE = ps[k]],
                      OverlayName(target, site.idfld), site.ids[Min(ps[k])])]])

\* Identity with the result replacing whatever is at the output path; when
\* the tool may not write over an existing output, that output stays.
Identity(old, target, site) ==
    IF OutputBlocked(old)
    THEN old
    ELSE [columns |-> target.columns \cup {OverlayName(target, site.idfld)},
          rows |-> IdentityRows(target, site)]

\* SpatialJoin(target, join, out): every target row once, with Join_Count the
\* number of join features (points) that intersect it.
SpatialJoin(t, pts) ==
    [columns |-> t.columns \cup {"Join_Count"},
     rows |-> [i \in DOMAIN t.rows |->
        WithCol(t.rows[i], "Join_Count",
                Cardinality({j \in DOMAIN pts :
                    Intersects(t.rows[i].SHAPE, PointShape(pts[j]))}))]]

\* ------------------------------------------------------ data-frame operations
\* sort_values is called with its default sorting algorithm (kind =
\* 'quicksort'), which pandas documents as not stable: the order in which rows
\* with equal keys come out is fixed by the sorting routine of the
\* installation, not by the call.  The routine is a function of its input;
\* tie_order stands for it.  Order k takes, whenever several of the rows
\* still to be placed have the best count, the k-th of them in original order
\* (counted cyclically); order 1 is the stable order.
NotChosen == 0

TieOrders == 1..MaxFrag

HasTies(t) ==
    \E i, j \in DOMAIN t.rows : i # j /\ t.rows[i].Join_Count = t.rows[j].Join_Count

\* The orders a sort of t can follow: the installation's, which shows the
\* first time a sort meets equal counts.
TieOrdersOf(t, order) ==
    IF order = NotChosen /\ HasTies(t) THEN TieOrders ELSE {order}

\* The row taken among the rows best with equal counts.
Pick(best, order) ==
    LET q == SelectIdx([i \in 1..Max(best) |-> i], best)
    IN IF order = NotChosen THEN q[1] ELSE q[((order - 1) % Len(q)) + 1]

RECURSIVE SortIdx(_, _, _, _)
SortIdx(rows, I, descending, tie) ==
    IF I = {} THEN <<>>
    ELSE LET best == {i \in I : \A j \in I :
                        IF descending
                        THEN rows[j].Join_Count <= rows[i].Join_Count
                        ELSE rows[i].Join_Count <= rows[j].Join_Count}
             i == Pick(best, tie)
         IN <<rows[i]>> \o SortIdx(rows, I \ {i}, descending, tie)

\* Variant: sorted by ascending count.
SortValuesAscending(t, tie) ==
    [columns |-> t.columns, rows |-> SortIdx(t.rows, DOMAIN t.rows, FALSE, tie)]

\* sdf.sort_values(by='Join_Count', ascending=False)
SortValues(t, tie) ==
    [columns |-> t.columns, rows |-> SortIdx(t.rows, DOMAIN t.rows, TRUE, tie)]

\* Variant: duplicates are looked for on whole rows, not on the key column.
DropDuplicatesWholeRow(t, key) ==
    [columns |-> t.columns,
     rows |-> SelectIdx(t.rows,
        {i \in DOMAIN t.rows : ~ \E j \in 1..(i - 1) : t.rows[j] = t.rows[i]})]

\* .drop_duplicates(subset=temp_id, keep='first')
DropDuplicates(t, key) ==
    [columns |-> t.columns,
     rows |-> SelectIdx(t.rows,
        {i \in DOMAIN t.rows :
            ~ \E j \in 1..(i - 1) : t.rows[j][key] = t.rows[i][key]})]

\* sdf.rename(columns={fld_nme: out_fld_nme}, inplace=True); a name that is
\* not a column is ignored.
Rename(t, old, new) ==
    IF old \notin t.columns THEN t
    ELSE [columns |-> (t.columns \ {old}) \cup {new},
          rows |-> [i \in DOMAIN t.rows |->
                      WithCol(DropCol(t.rows[i], old), new, t.rows[i][old])]]

\* sdf[[link_fld, out_fld_nme]]
Columns(t, cs) ==
    [columns |-> cs, rows |-> [i \in DOMAIN t.rows |-> Project(t.rows[i], cs)]]

\* The rows of right that match the left row l on the key, joined to l.
Matches(l, right, on) ==
    LET hit == SelectIdx(right.rows,
                         {i \in DOMAIN right.rows : right.rows[i][on] = l[on]})
    IN [k \in DOMAIN hit |->
          [f \in DOMAIN l \cup right.columns |->
              IF f \in DOMAIN l THEN l[f] ELSE hit[k][f]]]

\* Variant: how='left', a left row without a match is kept.
MergeLeft(left, right, on) ==
    [columns |-> left.columns \cup right.columns,
     rows |-> Flatten([i \in DOMAIN left.rows |->
        IF Matches(left.rows[i], right, on) = <<>>
        THEN <<[f \in left.columns \cup right.columns |->
                  IF f \in left.columns THEN left.rows[i][f] ELSE NoSite]>>
        ELSE Matches(left.rows[i], right, on)])]

\* orig_sdf.merge(right, on=link_fld): pandas' default how='inner', one output
\* row per pair of a left and a right row with equal keys, in left order.
Merge(left, right, on) ==
    [columns |-> left.columns \cup right.columns,
     rows |-> Flatten([i \in DOMAIN left.rows |->
                         Matches(left.rows[i], right, on)])]

\* Variant: every identifier that is in the registry.
FoundIds(in_ids, registry) ==
    SelectSeq(in_ids, LAMBDA f : f \in Range(registry))

\* check_site_id_exists: [f for f in in_ids if f not in site_p_sdf[site_fld].tolist()]
check_site_id_exists(in_ids, registry) ==
    SelectSeq(in_ids, LAMBDA f : f \notin Range(registry))

\* self.indig_sdf[col].to_list()
ToList(t, col) == [i \in DOMAIN t.rows |-> t.rows[i][col]]

\* The pairs of a left row and the right rows it intersects, as join rows.
JoinMatches(l, right, cols) ==
    LET hit == SelectIdx(right.rows,
                 {i \in DOMAIN right.rows :
                     Intersects(PointShape(l), right.rows[i].SHAPE)})
    IN [k \in DOMAIN hit |->
          [f \in DOMAIN l \cup cols |-> IF f \in DOMAIN l THEN l[f] ELSE hit[k][f]]]

\* bld_p_sdf.spatial.join(right, op='intersects'): the accessor's default
\* how='inner', one output row per pair of a point and a polygon row that
\* intersect; the right geometry and index_right are not kept.
SpatialDfJoin(left, right, cols) ==
    [columns |-> left.columns \cup cols,
     rows |-> Flatten([i \in DOMAIN left.rows |->
                         JoinMatches(left.rows[i], right, cols)])]

\* ------------------------------------------------------------ initial state
\* A Community Polygon layer; with has_pd it has a PD_Site_ID field of its
\* own, here holding the first PD identifier for PLACE_ID 1, the next for 2.
PolygonTable(pl, sh, has_pd) ==
    IF has_pd
    THEN [columns |-> {"OBJECTID", "PLACE_ID", "SHAPE", PdFld},
          rows |-> [i \in DOMAIN pl |->
                      [OBJECTID |-> i, PLACE_ID |-> pl[i], SHAPE |-> sh[i],
                       PD_Site_ID |-> Min(PdIds) + pl[i] - 1]]]
    ELSE [columns |-> {"OBJECTID", "PLACE_ID", "SHAPE"},
          rows |-> [i \in DOMAIN pl |->
                      [OBJECTID |-> i, PLACE_ID |-> pl[i], SHAPE |-> sh[i]]]]

PointTable(cs) ==
    [columns |-> {"OBJECTID", "SHAPE"},
     rows |-> [i \in DOMAIN cs |-> [OBJECTID |-> i, SHAPE |-> cs[i]]]]

\* The Community Polygon layers tried: 1..MaxPoly polygons, each a non-empty
\* set of cells with a PLACE_ID, with or without a PD_Site_ID field; the rows
\* are listed by PLACE_ID, from 1.
PolygonTables ==
    {PolygonTable(x[1], x[2], has_pd) :
        has_pd \in BOOLEAN,
        x \in UNION {{y \in [1..n -> PlaceIds] \X [1..n -> (SUBSET Cells) \ {{}}] :
                         /\ y[1][1] = 1
                         /\ \A i \in 1..(n - 1) : y[1][i] <= y[1][i + 1]} :
                     n \in 1..MaxPoly}}

\* The Building Point layers tried: 0..MaxPts points, listed in cell order
\* (no step depends on the order of the points).
PointTables ==
    {PointTable(cs) :
        cs \in {c \in SeqsUpTo(Cells, MaxPts) :
                   \A i \in 1..(Len(c) - 1) : c[i] <= c[i + 1]}}

\* What an earlier, interrupted run of the PD call on other data has left in
\* the scratch workspace.
StaleScratch ==
    Identity(NoTable, AddTempId(PolygonTable(<<2>>, <<Cells>>, TRUE)),
             [idfld |-> "SITE_ID", ids |-> [c \in Cells |-> IF c = 1 THEN 102 ELSE 101]])

StaleScratch2 == SpatialJoin(StaleScratch, PointTable(<<1>>).rows)

\* The Site Point registry of the run: it lacks the PD identifier 102.
RECURSIVE SetToSeq(_)
SetToSeq(S) == IF S = {} THEN <<>> ELSE <<Min(S)>> \o SetToSeq(S \ {Min(S)})

\* The PD site layers tried: one site polygon over every cell, or one over
\* cell 1 and another over the rest, the identifier field named SITE_ID; and
\* one site polygon over every cell with the field named PD_Site_ID.
PdLayers ==
    {[idfld |-> "SITE_ID", ids |-> [c \in Cells |-> IF c = 1 THEN Min(PdIds) ELSE v]] :
        v \in PdIds}
    \cup {[idfld |-> PdFld, ids |-> [c \in Cells |-> Min(PdIds)]]}

\* The ADVPD site layers tried: a site polygon over every cell, or over cell 1
\* alone, the identifier field named ADVPD_Site_ID; and a site polygon over
\* every cell with the field named SITE_ID.
AdvLayers ==
    {[idfld |-> AdvFld, ids |-> [c \in Cells |-> IF c \in S THEN Min(AdvIds) ELSE NoSite]] :
        S \in {Cells, {1}}}
    \cup {[idfld |-> "SITE_ID", ids |-> [c \in Cells |-> Min(AdvIds)]]}

Registry == SetToSeq({101} \cup AdvIds)


Init ==
    /\ pc = "start"
    /\ log = <<>>
    /\ deleting = FALSE
    /\ ia_a \in PolygonTables
    /\ bld_p \in PointTables
    /\ site_a \in PdLayers
    /\ adv_pd \in AdvLayers
    /\ site_a_fields = {}
    /\ advpd_fields = {}
    /\ site_p = Registry
    /\ tie_order = NotChosen
    /\ ia_centroids = NoTable
    /\ bld_p_ap = NoTable
    /\ \E stale \in BOOLEAN :
          /\ scratch = IF stale THEN StaleScratch ELSE NoTable
          /\ scratch_2 = IF stale THEN StaleScratch2 ELSE NoTable
    /\ out_fc = NoTable
    /\ bld_p_nme = "BUILDING_P"
    /\ bld_p_pth = DefaultBldP
    /\ bld_p_flyr = DefaultBldP
    /\ indig_sdf = NoTable
    /\ sdf = NoTable
    /\ pd_missing = <<>>
    /\ adv_missing = <<>>

\* ------------------------------------------------------------------ actions
\* __init__ up to the first step: the names and paths are set, the working
\* table is read from the Community Polygon layer, both lists of fields to
\* drop are taken from the layer at site_a_pth and the feature layers are made.
Setup ==
    /\ pc = "start"
    /\ log' = <<>>
    /\ deleting' = FALSE
    /\ bld_p_nme' = "BUILDING_P"
    /\ bld_p_pth' = DefaultBldP
    /\ bld_p_flyr' = DefaultBldP
    /\ indig_sdf' = ia_a
    /\ site_a_fields' = NonEssential(site_a)
    /\ advpd_fields' = NonEssential(site_a)
    /\ sdf' = NoTable
    /\ pd_missing' = <<>>
    /\ adv_missing' = <<>>
    /\ pc' = "step_1"
    /\ UNCHANGED <<inputs, tie_order, ia_centroids, bld_p_ap, scratch, scratch_2,
                   out_fc>>

\* step_1, the Gap Filler.
step_1 ==
    /\ pc = "step_1"
    /\ log' = Append(log, "step_1")
    /\ LET pts == ReadPoints(bld_p_flyr, bld_p, bld_p_ap)
           selection == SwitchedSelection(ia_a.rows, pts)
           no_points_cnt == Cardinality(selection)
           centroids == FeatureToPoint(ia_a.rows, selection)
       IN IF no_points_cnt > 0
          THEN /\ ia_centroids' = centroids
               /\ bld_p_nme' = "BUILDING_P_ap"
               /\ bld_p_pth' = ScratchBldP
               /\ bld_p_ap' = AppendFeatures(centroids, ExportFeatures(pts))
               /\ bld_p_flyr' = ScratchBldP
          ELSE UNCHANGED <<ia_centroids, bld_p_nme, bld_p_pth, bld_p_ap, bld_p_flyr>>
    /\ pc' = "step_2_pd"
    /\ UNCHANGED <<deleting, inputs, non_ess_fields, tie_order, scratch, scratch_2, out_fc,
                   indig_sdf, sdf, pd_missing, adv_missing>>

\* Line 99: the parts are sorted by falling point count and the first row of
\* every temp_id is kept.
ResolveParts(joined, tie) == DropDuplicates(SortValues(joined, tie), temp_id)

\* Lines 113-114: the link field and the new column are merged onto the
\* working table.
MergeBack(orig_sdf, renamed, out_fld_nme) ==
    Merge(orig_sdf, Columns(renamed, {"PLACE_ID", out_fld_nme}), "PLACE_ID")

\* The test the two schema checks make: the column is not in the frame.
FieldMissing(fld, t) == fld \notin t.columns

\* Variant: the checks are passed over.
NeverAborts(kept, renamed, fld_nme, out_fld_nme) == FALSE

\* add_site_id leaves through sys.exit() when fld_nme is not a column of the
\* resolved frame, or out_fld_nme is not one after the renaming.
Aborts(kept, renamed, fld_nme, out_fld_nme) ==
    FieldMissing(fld_nme, kept) \/ FieldMissing(out_fld_nme, renamed)

\* add_site_id(target_lyr = ia_a, site_lyr, non_ess_fields,
\*             bldp_lyr = bld_p_flyr, orig_sdf = indig_sdf, fld_nme,
\*             out_fld_nme), link_fld = PLACE_ID.
\* The frame sdf is local to the call: it is kept here when the call returns.
\* A tool that may not write over an existing output raises, and the run ends.
add_site_id(site_lyr, fields, fld_nme, out_fld_nme, next) ==
    LET target == AddTempId(ia_a)
        stale == DeleteStale(scratch, fld_nme, out_fld_nme)
        overlay == DeleteField(Identity(stale, target, site_lyr), fields)
        joined == SpatialJoin(overlay, ReadPoints(bld_p_flyr, bld_p, bld_p_ap))
    IN \E tie \in TieOrdersOf(joined, tie_order) :
        LET kept == ResolveParts(joined, tie)
            renamed == Rename(kept, fld_nme, out_fld_nme)
        IN /\ ia_a' = target
           /\ deleting' = StaleFound(scratch, fld_nme, out_fld_nme)
           /\ IF OutputBlocked(stale) \/ OutputBlocked(scratch_2)
              THEN /\ pc' = "error"        \* ExecuteError in Identity or SpatialJoin
                   /\ scratch' = stale
                   /\ sdf' = NoTable
                   /\ UNCHANGED <<scratch_2, indig_sdf, tie_order>>
              ELSE /\ scratch' = overlay
                   /\ scratch_2' = joined
                   /\ tie_order' = tie
                   /\ IF Aborts(kept, renamed, fld_nme, out_fld_nme)
                      THEN /\ pc' = "exit"
                           /\ sdf' = NoTable
                           /\ UNCHANGED indig_sdf
                      ELSE IF ~ ({"PLACE_ID", out_fld_nme} \subseteq renamed.columns)
                      THEN /\ pc' = "error"     \* KeyError in sdf[[link_fld, out_fld_nme]]
                           /\ sdf' = NoTable
                           /\ UNCHANGED indig_sdf
                      ELSE /\ pc' = next
                           /\ sdf' = renamed
                           /\ indig_sdf' = MergeBack(indig_sdf, renamed, out_fld_nme)
           /\ UNCHANGED <<bld_p, site_a, adv_pd, non_ess_fields, site_p,
                          ia_centroids, bld_p_ap, out_fc, bld_p_nme, bld_p_pth,
                          bld_p_flyr, pd_missing, adv_missing>>

\* step_2, first call: the PD site identifier.
step_2_pd ==
    /\ pc = "step_2_pd"
    /\ log' = Append(log, "step_2")
    /\ add_site_id(site_a, site_a_fields, PdFld, pd_sid_fld_nme, "step_2_adv")

\* step_2, second call: the ADVPD site identifier.
step_2_adv ==
    /\ pc = "step_2_adv"
    /\ log' = log
    /\ add_site_id(adv_pd, advpd_fields, AdvFld, adv_sid_fld_nme, "step_3")

\* Variant: a missing identifier stops the run.
AbortOnMissing(pd_m, adv_m) ==
    IF pd_m # <<>> \/ adv_m # <<>> THEN "exit" ELSE "step_4"

\* Lines 183-187: the missing identifiers are only logged, and step_3
\* returns to __init__, which goes on to step 4.
AfterCheck(pd_m, adv_m) == "step_4"

\* step_3, the Consistency Checker.
step_3 ==
    /\ pc = "step_3"
    /\ log' = Append(log, "step_3")
    /\ pd_missing' = check_site_id_exists(ToList(indig_sdf, pd_sid_fld_nme), site_p)
    /\ adv_missing' = check_site_id_exists(ToList(indig_sdf, adv_sid_fld_nme), site_p)
    /\ pc' = AfterCheck(pd_missing', adv_missing')
    /\ UNCHANGED <<deleting, inputs, non_ess_fields, tie_order, ia_centroids, bld_p_ap,
                   scratch, scratch_2, out_fc, bld_p_nme, bld_p_pth, bld_p_flyr,
                   indig_sdf, sdf>>

\* The feature class self.bld_p_pth names.
BldPTable == IF bld_p_pth = DefaultBldP THEN bld_p ELSE bld_p_ap

\* step_4, Join & Materialize.  The output path is built from the module
\* global scratch_gdb, which is bound only when data_prepper.py runs as the
\* main module; started through data_prep.py the name is unbound and the
\* step ends in a NameError before anything is written.
step_4 ==
    /\ pc = "step_4"
    /\ log' = Append(log, "step_4")
    /\ \E scratch_gdb_bound \in BOOLEAN :
          IF scratch_gdb_bound
          THEN /\ out_fc' = SpatialDfJoin(BldPTable, indig_sdf,
                                          {adv_sid_fld_nme, pd_sid_fld_nme})
               /\ pc' = "done"
          ELSE /\ pc' = "error"
               /\ UNCHANGED out_fc
    /\ UNCHANGED <<deleting, inputs, non_ess_fields, tie_order, ia_centroids, bld_p_ap,
                   scratch, scratch_2, bld_p_nme, bld_p_pth, bld_p_flyr,
                   indig_sdf, sdf, pd_missing, adv_missing>>

Next == Setup \/ step_1 \/ step_2_pd \/ step_2_adv \/ step_3 \/ step_4

Spec == Init /\ [][Next]_vars

\* ------------------------------------------- the functions on drawn inputs
\* A second specification applies the tie-break, the merge and the checker
\* to tables drawn from bounded sets, not only to those the overlay of the
\* discretised layers produces.

\* Results of SpatialJoin in the ADVPD call: up to MaxFrag parts of two
\* target rows, each part a shape of its own, with point counts among 2, 3, 7
\* and an ADVPD identifier.
CountedTables ==
    {[columns |-> {temp_id, "PLACE_ID", "SHAPE", AdvFld, "Join_Count"},
      rows |-> [i \in DOMAIN x |->
                  [temp_id |-> x[i][1], PLACE_ID |-> x[i][1], SHAPE |-> {i},
                   ADVPD_Site_ID |-> x[i][2], Join_Count |-> x[i][3]]]] :
        x \in SeqsUpTo({1, 2} \X AdvIds \X {2, 3, 7}, MaxFrag)}

\* Resolved mappings after the renaming: at most one row per target row.
MappingTables ==
    {[columns |-> {temp_id, "PLACE_ID", pd_sid_fld_nme, "Join_Count"},
      rows |-> [i \in DOMAIN x |->
                  [temp_id |-> i, PLACE_ID |-> x[i][1],
                   AUTO_PD_SITE_ID |-> x[i][2], Join_Count |-> 1]]] :
        x \in SeqsUpTo(PlaceIds \X PdIds, MaxPoly)}

\* Working tables after step 2: up to MaxIds rows with both identifiers.
CheckIds == {101, 102, 103}

ResolvedTables ==
    {[columns |-> {"OBJECTID", "PLACE_ID", pd_sid_fld_nme, adv_sid_fld_nme},
      rows |-> [i \in DOMAIN x |->
                  [OBJECTID |-> i, PLACE_ID |-> i,
                   AUTO_PD_SITE_ID |-> x[i][1], AUTO_ADV_SITE_ID |-> x[i][2]]]] :
        x \in SeqsUpTo(CheckIds \X {NoSite, Min(AdvIds)}, MaxIds)}

Registries == {SetToSeq(S) : S \in SUBSET CheckIds}

InitFn ==
    /\ log = <<>>
    /\ deleting = FALSE
    /\ bld_p = PointTable(<<>>)
    /\ site_a = [idfld |-> "SITE_ID", ids |-> [c \in Cells |-> NoSite]]
    /\ adv_pd = [idfld |-> "SITE_ID", ids |-> [c \in Cells |-> NoSite]]
    /\ site_a_fields = {}
    /\ advpd_fields = {}
    /\ tie_order = NotChosen
    /\ ia_centroids = NoTable
    /\ bld_p_ap = NoTable
    /\ scratch = NoTable
    /\ out_fc = NoTable
    /\ bld_p_nme = "BUILDING_P"
    /\ bld_p_pth = DefaultBldP
    /\ bld_p_flyr = DefaultBldP
    /\ pd_missing = <<>>
    /\ adv_missing = <<>>
    /\ \/ /\ pc = "resolve"
          /\ scratch_2 \in CountedTables
          /\ ia_a = NoTable
          /\ indig_sdf = NoTable
          /\ sdf = NoTable
          /\ site_p = <<>>
       \/ /\ pc = "merge"
          /\ ia_a \in PolygonTables
          /\ indig_sdf = ia_a
          /\ sdf \in MappingTables
          /\ scratch_2 = NoTable
          /\ site_p = <<>>
       \/ /\ pc = "step_3"
          /\ indig_sdf \in ResolvedTables
          /\ site_p \in Registries
          /\ ia_a = NoTable
          /\ sdf = NoTable
          /\ scratch_2 = NoTable

\* Line 99 on a drawn SpatialJoin result.
Resolve ==
    /\ pc = "resolve"
    /\ \E tie \in TieOrdersOf(scratch_2, tie_order) :
          /\ sdf' = ResolveParts(scratch_2, tie)
          /\ tie_order' = tie
    /\ pc' = "resolved"
    /\ UNCHANGED <<log, deleting, inputs, non_ess_fields, ia_centroids, bld_p_ap,
                   scratch, scratch_2, out_fc, bld_p_nme, bld_p_pth, bld_p_flyr,
                   indig_sdf, pd_missing, adv_missing>>

\* Line 99 once more, in a second run on the same SpatialJoin result.
ResolveAgain ==
    /\ pc = "resolved"
    /\ \E tie \in TieOrdersOf(scratch_2, tie_order) :
          /\ sdf' = ResolveParts(scratch_2, tie)
          /\ tie_order' = tie
    /\ pc' = "resolved_again"
    /\ UNCHANGED <<log, deleting, inputs, non_ess_fields, ia_centroids, bld_p_ap,
                   scratch, scratch_2, out_fc, bld_p_nme, bld_p_pth, bld_p_flyr,
                   indig_sdf, pd_missing, adv_missing>>

\* Lines 113-114 on a drawn working table and resolved mapping.
MergeStep ==
    /\ pc = "merge"
    /\ indig_sdf' = MergeBack(indig_sdf, sdf, pd_sid_fld_nme)
    /\ pc' = "merged"
    /\ UNCHANGED <<log, deleting, inputs, non_ess_fields, tie_order, ia_centroids,
                   bld_p_ap, scratch, scratch_2, out_fc, bld_p_nme, bld_p_pth,
                   bld_p_flyr, sdf, pd_missing, adv_missing>>

NextFn == Resolve \/ ResolveAgain \/ MergeStep \/ step_3

SpecFn == InitFn /\ [][NextFn]_vars

\* ------------------------------------------------------------------ claims
\* The rows of t that are parts of target row k.
FragmentsOf(t, k) == {i \in DOMAIN t.rows : t.rows[i][temp_id] = k}

TempIds(t) == {t.rows[i][temp_id] : i \in DOMAIN t.rows}

\* The parts of target row k whose point count is the highest of that row.
TopFragments(t, k) ==
    {i \in FragmentsOf(t, k) :
        \A j \in FragmentsOf(t, k) : t.rows[j].Join_Count <= t.rows[i].Join_Count}

\* C1: for every target row (temp_id) with more than one part in the overlay
\* result, the resolved frame keeps one row for it, that row is one of its
\* parts, and no part of that target row has a higher Join_Count.
C1_MaxCountKept ==
    pc = "resolved" =>
        \A k \in TempIds(scratch_2) :
            Cardinality(FragmentsOf(scratch_2, k)) > 1 =>
                \E j \in DOMAIN sdf.rows :
                    /\ sdf.rows[j][temp_id] = k
                    /\ \A j2 \in DOMAIN sdf.rows : sdf.rows[j2][temp_id] = k => j2 = j
                    /\ \E i \in TopFragments(scratch_2, k) : sdf.rows[j] = scratch_2.rows[i]

\* C1 witness: one target row in parts with counts 3, 7, 2; the part with
\* count 7 carries 202, the others 201, and the identifier kept is 202.
C1_Witness ==
    /\ pc = "resolved"
    /\ Len(scratch_2.rows) = 3
    /\ \A i \in 1..3 : scratch_2.rows[i][temp_id] = 1
    /\ ToList(scratch_2, "Join_Count") = <<3, 7, 2>>
    /\ ToList(scratch_2, AdvFld) = <<201, 202, 201>>
    /\ ToList(sdf, AdvFld) = <<202>>

\* The row of the resolved frame for target row k is the part at position i
\* of the overlay result (parts of one target row differ in their shape).
KeptIs(k, i) ==
    \E j \in DOMAIN sdf.rows :
        /\ sdf.rows[j][temp_id] = k
        /\ sdf.rows[j].SHAPE = scratch_2.rows[i].SHAPE
        /\ \A j2 \in DOMAIN sdf.rows : sdf.rows[j2][temp_id] = k => j2 = j

\* Line 99 has been applied to the drawn overlay result.
Resolved == pc \in {"resolved", "resolved_again"}

C2_RowIdsUnique ==
    pd_sid_fld_nme \in indig_sdf.columns =>
        \A i, j \in DOMAIN indig_sdf.rows :
            indig_sdf.rows[i].OBJECTID = indig_sdf.rows[j].OBJECTID => i = j

\* The original row at position i of the Community Polygon layer is a row of
\* the working table.
Present(i) ==
    \E j \in DOMAIN indig_sdf.rows :
        Project(indig_sdf.rows[j], ia_a.columns) = ia_a.rows[i]

\* The original row at position i has the link-field value of some row of the
\* resolved mapping.
Matched(i) ==
    \E m \in DOMAIN sdf.rows : sdf.rows[m].PLACE_ID = ia_a.rows[i].PLACE_ID

\* C3 as claimed: after the merge every row of the caller's working table is
\* still in the returned table, whatever the resolved mapping holds.
C3_LeftPreserving ==
    pc = "merged" => \A i \in DOMAIN ia_a.rows : Present(i)

\* C3 as amended: after the merge a row of the caller's working table is in
\* the returned table exactly when its link-field value occurs in the resolved
\* mapping (rows without a match are dropped), and every returned row is an
\* original row with the new column added.
C3_MatchedRowsPreserved ==
    pc = "merged" =>
        /\ \A i \in DOMAIN ia_a.rows : Present(i) <=> Matched(i)
        /\ \A j \in DOMAIN indig_sdf.rows :
              /\ Project(indig_sdf.rows[j], ia_a.columns) \in Range(ia_a.rows)
              /\ pd_sid_fld_nme \in DOMAIN indig_sdf.rows[j]

\* C3 witness: a merge in which one original row has a match and is kept and
\* another has none and is gone.
C3_Witness ==
    /\ pc = "merged"
    /\ \E i \in DOMAIN ia_a.rows : Matched(i) /\ Present(i)
    /\ \E i \in DOMAIN ia_a.rows : ~ Matched(i) /\ ~ Present(i)

\* step_4 has been run to its end, normally or not.
Step4Ran == pc \in {"done", "error"} /\ "step_4" \in Range(log)

\* C4: after step_4 the output feature class exists and holds exactly one row
\* for every point of the augmented point layer, in order, with both
\* identifier columns.
C4_OneRowPerPoint ==
    Step4Ran =>
        /\ Exists(out_fc)
        /\ {adv_sid_fld_nme, pd_sid_fld_nme} \subseteq out_fc.columns
        /\ Len(out_fc.rows) = Len(BldPTable.rows)
        /\ \A i \in DOMAIN out_fc.rows :
              Project(out_fc.rows[i], BldPTable.columns) = BldPTable.rows[i]

\* The polygons without an original Building Point, in row order.
GapPolygons ==
    SelectIdx([i \in DOMAIN ia_a.rows |-> i],
              SwitchedSelection(ia_a.rows, bld_p.rows))

\* After step_1 the layer object and the path used by the later steps read the
\* same rows: the original points, unchanged and in place, followed by one
\* point per polygon without a point, lying inside that polygon; without such
\* a polygon, name, path and layer still are the original's and no copy exists.
GapFilled ==
    pc \notin {"start", "step_1"} =>
        LET orig == bld_p.rows
            used == BldPTable.rows
            N == Len(GapPolygons)
        IN /\ ReadPoints(bld_p_flyr, bld_p, bld_p_ap) = used
           /\ Len(used) = Len(orig) + N
           /\ \A i \in DOMAIN orig : used[i] = orig[i]
           /\ \A k \in 1..N :
                 used[Len(orig) + k].SHAPE \in ia_a.rows[GapPolygons[k]].SHAPE
           /\ N = 0 => /\ bld_p_nme = "BUILDING_P"
                       /\ bld_p_pth = DefaultBldP
                       /\ bld_p_flyr = DefaultBldP
                       /\ ~ Exists(bld_p_ap)

\* C5: GapFilled holds after step_1, and no step changes the original
\* Building Point layer of the default workspace.
C5_GapFillerAppendsOnly == [] GapFilled /\ [][bld_p' = bld_p]_vars

\* C5 witness: the run has ended with a point layer made of two original
\* points and one synthesized point.
C5_Witness ==
    /\ pc = "done"
    /\ Len(bld_p.rows) = 2
    /\ Len(GapPolygons) = 1
    /\ Len(BldPTable.rows) = 3

\* The number of times v occurs in the sequence q.
Count(q, v) == Cardinality({i \in DOMAIN q : q[i] = v})

NoRepeats(q) == \A i, j \in DOMAIN q : q[i] = q[j] => i = j

\* The result hit is the identifiers of in_ids that the registry lacks.
IsSetDifference(hit, in_ids) == Range(hit) = Range(in_ids) \ Range(site_p)

\* C6 as claimed: the checker reports exactly the identifiers of in_ids that
\* are not in the registry, each of them once.
C6_EachMissingOnce ==
    pc = "step_4" =>
        /\ IsSetDifference(pd_missing, ToList(indig_sdf, pd_sid_fld_nme))
        /\ IsSetDifference(adv_missing, ToList(indig_sdf, adv_sid_fld_nme))
        /\ NoRepeats(pd_missing)
        /\ NoRepeats(adv_missing)

\* The result hit holds every identifier the registry lacks as often as
\* in_ids does, and no other.
IsFiltered(hit, in_ids) ==
    /\ IsSetDifference(hit, in_ids)
    /\ \A v \in Range(in_ids) :
          Count(hit, v) = IF v \in Range(site_p) THEN 0 ELSE Count(in_ids, v)

\* C6 as amended: the checker reports exactly the identifiers of in_ids that
\* are not in the registry, each as often as it occurs in in_ids; the working
\* table (and with it in_ids) and the registry are left as they were.
C6_MissingWithMultiplicity ==
    /\ [](pc = "step_4" =>
            /\ IsFiltered(pd_missing, ToList(indig_sdf, pd_sid_fld_nme))
            /\ IsFiltered(adv_missing, ToList(indig_sdf, adv_sid_fld_nme)))
    /\ [][pc = "step_3" => indig_sdf' = indig_sdf /\ site_p' = site_p]_vars

\* C6 witness: resolved 101, 102, 102 against a registry of 101 and 103 is
\* reported as 102, 102.
C6_Witness ==
    /\ pc = "step_4"
    /\ ToList(indig_sdf, pd_sid_fld_nme) = <<101, 102, 102>>
    /\ site_p = <<101, 103>>
    /\ pd_missing = <<102, 102>>

\* The add_site_id call being made in this step finds its identifier field
\* missing from the overlay result it has just produced.
FieldAbsentInCall ==
    \/ pc = "step_2_pd" /\ PdFld \notin scratch_2'.columns
    \/ pc = "step_2_adv" /\ AdvFld \notin scratch_2'.columns

\* C7: a call of add_site_id whose identifier field is absent from the overlay
\* result ends the run at the check, with the working table and the output
\* feature class as they were; a run ended there has announced neither step 3
\* nor step 4, and nothing runs after it.
C7_AbortsBeforeMerge ==
    /\ [][FieldAbsentInCall =>
            pc' = "exit" /\ indig_sdf' = indig_sdf /\ out_fc' = out_fc]_vars
    /\ [](pc = "exit" =>
            /\ ~ Exists(out_fc)
            /\ "step_3" \notin Range(log)
            /\ "step_4" \notin Range(log))
    /\ [][pc = "exit" => UNCHANGED vars]_vars

\* C7 witness: the second call has ended the run: the ADVPD field is not in
\* the overlay result, the working table has the PD column alone.
C7_Witness ==
    /\ pc = "exit"
    /\ Exists(scratch_2)
    /\ AdvFld \notin scratch_2.columns
    /\ "SITE_ID" \in scratch_2.columns
    /\ pd_sid_fld_nme \in indig_sdf.columns
    /\ adv_sid_fld_nme \notin indig_sdf.columns

StepOrder == <<"step_1", "step_2", "step_3", "step_4">>

\* C8: the steps are announced in the order 1, 2, 3, 4; step_3 always hands
\* over to step_4, whatever it has found missing, and step_4 can then run.
C8_WarningsNeverAbort ==
    /\ [](Len(log) <= 4 /\ log = SubSeq(StepOrder, 1, Len(log)))
    /\ [][pc = "step_3" =>
            pc' = "step_4" /\ log' = SubSeq(StepOrder, 1, 3)]_vars
    /\ [](pc = "step_4" => ENABLED step_4)
    /\ [][pc = "step_4" => log' = StepOrder]_vars

\* C8 witness: step_4 has run after a check that found PD and ADVPD
\* identifiers missing.
C8_Witness ==
    /\ Step4Ran
    /\ pd_missing # <<>>
    /\ adv_missing # <<>>

\* The SpatialJoin result of a call of add_site_id on a scratch workspace
\* that holds nothing.
FreshJoined(site_lyr, fields) ==
    SpatialJoin(DeleteField(Identity(NoTable, AddTempId(ia_a), site_lyr), fields),
                ReadPoints(bld_p_flyr, bld_p, bld_p_ap))

\* The mapping that call resolves.
FreshMapping(site_lyr, fields, fld_nme, out_fld_nme) ==
    Rename(ResolveParts(FreshJoined(site_lyr, fields), tie_order),
           fld_nme, out_fld_nme)

\* C9: whatever the scratch workspace held when a call of add_site_id was
\* made, the call ends as it does on an empty scratch workspace: the mapping
\* it has resolved is the one resolved there, it leaves through the schema
\* check only if it does so there, and it never fails on what the workspace
\* held.
C9_StaleScratchIgnored ==
    /\ pc = "step_2_adv" =>
          sdf = FreshMapping(site_a, site_a_fields, PdFld, pd_sid_fld_nme)
    /\ (pc \in {"step_3", "step_4", "done"} \/ Step4Ran) =>
          sdf = FreshMapping(adv_pd, advpd_fields, AdvFld, adv_sid_fld_nme)
    /\ pc = "exit" =>
          IF pd_sid_fld_nme \in indig_sdf.columns
          THEN AdvFld \notin FreshJoined(adv_pd, advpd_fields).columns
          ELSE PdFld \notin FreshJoined(site_a, site_a_fields).columns
    /\ pc = "error" => Step4Ran

\* C9 witness: the PD call has found and deleted the identifier field of a
\* scratch feature class left by an earlier run, and has resolved a mapping.
C9_Witness ==
    /\ pc = "step_2_adv"
    /\ deleting
    /\ Exists(sdf)

=============================================================================
